---------------------------- MODULE Spec2Model ----------------------------
(***************************************************************************)
(* The users service of microflack (src/app.py): the users table, the      *)
(* request handlers with their authentication callbacks, and the           *)
(* background thread that marks inactive users as offline.                 *)
(*                                                                         *)
(* A request is handled by a worker in the order Flask runs it:            *)
(* before_first_request, before_request, then the view wrapped by its      *)
(* login_required decorator.  Every query and every commit of the ORM      *)
(* session is a step of its own, so that requests interleave with each     *)
(* other and with the background thread between a read and a write.  A     *)
(* commit issues an UPDATE of the columns whose value differs from the     *)
(* value that was loaded (unit of work of the ORM), and refreshes          *)
(* updated_at (onupdate) only when it issues an UPDATE.                    *)
(***************************************************************************)
EXTENDS Integers, Sequences, FiniteSets, TLC

(***************************************************************************)
(* Bounds of the model.                                                    *)
(***************************************************************************)
MaxUsers == 2
MaxTime == 61
MaxTimeOnSchedule == 70

\* the requests of a behaviour, in order of arrival: each is handled by a
\* worker of its own
Workers == {1, 2}
Nicknames == {"foo", "bar"}
Passwords == {"p1", "p2"}
\* the clock jumps the model takes between steps
TickSteps == {60, 61}
\* seconds the clock may gain between the column defaults of one INSERT
ClockDrift == {<<0, 0>>, <<0, 1>>, <<1, 0>>}

(***************************************************************************)
(* Program constants.                                                      *)
(***************************************************************************)
OfflineTimeout == 60
SweepSleep == 5

VARIABLES
    users,      \* the users table: row i is the user with id i
    now,        \* the clock read by timestamp(), in whole seconds
    testing,    \* app.config['TESTING'], with the test harness's pushed app context
    pc,         \* position of each worker in the request it handles
                \* ("idle" before the request arrives, "done" after the response)
    req,        \* the request a worker is in the middle of
    g,          \* flask.g of each app context
    txn,        \* the row a worker's session loaded and its pending changes
    resp,       \* the response sent by the current step, with its request
    sweepPc,    \* position of the background thread
    sweepBatch, \* ids the background thread's last query returned
    wakeAt      \* end of the background thread's sleep

vars == <<users, now, testing, pc, req, g, txn, resp,
          sweepPc, sweepBatch, wakeAt>>

Ids == 1..Len(users)

(***************************************************************************)
(* Password hashing (werkzeug): the hash carries a salt; a new hash of the *)
(* same password differs from the stored one.                              *)
(***************************************************************************)
generate_password_hash(password, salt) == [pw |-> password, salt |-> salt]

check_password_hash(hash, password) == hash.pw = password

NextSalt(hash) == 1 - hash.salt

(***************************************************************************)
(* Tokens: the external capability maps a valid token to a user id.        *)
(***************************************************************************)
NoToken == [present |-> FALSE, valid |-> FALSE, user_id |-> 0]
BadToken == [present |-> TRUE, valid |-> FALSE, user_id |-> 0]
generate_token(uid) == [present |-> TRUE, valid |-> TRUE, user_id |-> uid]
Tokens == {NoToken, BadToken} \cup {generate_token(i) : i \in 1..MaxUsers}

\* flask.g: jwt_claims is absent, or a dict that may hold user_id
FreshG == [has_claims |-> FALSE, claims |-> {}]

NoChanges == [nickname |-> {}, password_hash |-> {}, last_seen_at |-> {},
              online |-> {}]
NoTxn == [id |-> 0, ch |-> NoChanges]
NoData == [nickname |-> {}, password |-> {}]
NoArgs == [online |-> "", updated_since |-> {}]
\* a request; pinged is the user that before_request has pinged for it
NoReq == [ep |-> "none", id |-> 0, token |-> NoToken, data |-> NoData,
          args |-> NoArgs, pinged |-> 0]
NoResp == [req |-> NoReq, status |-> 0, body |-> <<>>]

(***************************************************************************)
(* Rows and the unit of work.                                              *)
(***************************************************************************)
RowsByNickname(tbl, nickname) == {i \in 1..Len(tbl) : tbl[i].nickname = nickname}

\* the column changes of setting attribute values on a loaded row
Diff(row, nickname, hash, seen, online) ==
    [nickname      |-> nickname \ {row.nickname},
     password_hash |-> hash \ {row.password_hash},
     last_seen_at  |-> seen \ {row.last_seen_at},
     online        |-> online \ {row.online}]

Pick(s, old) == IF s = {} THEN old ELSE CHOOSE v \in s : TRUE

\* an UPDATE of a table whose updated_at has no onupdate
ApplyUpdateOnly(row, ch, t) ==
    [row EXCEPT !.nickname = Pick(ch.nickname, @),
                !.password_hash = Pick(ch.password_hash, @),
                !.last_seen_at = Pick(ch.last_seen_at, @),
                !.online = Pick(ch.online, @)]

\* UPDATE users SET <changed columns>, updated_at = timestamp() WHERE id = ...
ApplyUpdate(row, ch, t) ==
    IF ch = NoChanges THEN row
    ELSE [row EXCEPT !.nickname = Pick(ch.nickname, @),
                     !.password_hash = Pick(ch.password_hash, @),
                     !.last_seen_at = Pick(ch.last_seen_at, @),
                     !.online = Pick(ch.online, @),
                     !.updated_at = t]

\* a store without the unique constraint on nickname
UpdateIgnoresUnique(tbl, id, ch) == FALSE

\* the unique constraint on nickname, checked when the UPDATE is flushed
UpdateViolatesUnique(tbl, id, ch) ==
    /\ ch.nickname # {}
    /\ \E j \in 1..Len(tbl) : j # id /\ tbl[j].nickname \in ch.nickname

\* the unique constraint on nickname, checked when the INSERT is flushed
InsertViolatesUnique(tbl, data) ==
    \E n \in data.nickname : RowsByNickname(tbl, n) # {}

\* User.ping
ping(row, t) == Diff(row, {}, {}, {t}, {TRUE})


\* User.verify_password
verify_password(row, password) == check_password_hash(row.password_hash, password)

(***************************************************************************)
(* microflack_common.auth: both callbacks store the claims of the token    *)
(* in g.jwt_claims; the optional one accepts a request without a token.    *)
(***************************************************************************)
verify_token(token) ==
    [ok |-> token.valid,
     g  |-> [has_claims |-> TRUE,
             claims |-> IF token.valid THEN {token.user_id} ELSE {}]]

verify_optional_token(token) ==
    IF ~token.present
    THEN [ok |-> TRUE, g |-> [has_claims |-> TRUE, claims |-> {}]]
    ELSE verify_token(token)

(***************************************************************************)
(* The listing of get_users: ORDER BY updated_at, nickname with the        *)
(* optional filters on online and updated_at.                              *)
(***************************************************************************)
NickRank(n) == CASE n = "bar" -> 1 [] n = "baz" -> 2 [] n = "foo" -> 3
                 [] OTHER -> 4

RowBefore(a, b) ==
    \/ a.updated_at < b.updated_at
    \/ a.updated_at = b.updated_at /\ NickRank(a.nickname) < NickRank(b.nickname)

RECURSIVE OrderBy(_, _)
OrderBy(tbl, S) ==
    IF S = {} THEN <<>>
    ELSE LET first == CHOOSE i \in S :
                        \A j \in S \ {i} :
                            \/ RowBefore(tbl[i], tbl[j])
                            \/ ~RowBefore(tbl[j], tbl[i]) /\ i < j
         IN <<first>> \o OrderBy(tbl, S \ {first})

\* a listing whose updated_since excludes the rows updated at that very time
ListUsersAfter(tbl, args) ==
    LET byOnline == IF args.online # ""
                    THEN {i \in 1..Len(tbl) : tbl[i].online = (args.online # "0")}
                    ELSE 1..Len(tbl)
        bySince  == IF args.updated_since # {}
                    THEN {i \in byOnline :
                            \A v \in args.updated_since : tbl[i].updated_at > v}
                    ELSE byOnline
    IN OrderBy(tbl, bySince)

ListUsers(tbl, args) ==
    LET byOnline == IF args.online # ""
                    THEN {i \in 1..Len(tbl) : tbl[i].online = (args.online # "0")}
                    ELSE 1..Len(tbl)
        bySince  == IF args.updated_since # {}
                    THEN {i \in byOnline :
                            \A v \in args.updated_since : tbl[i].updated_at >= v}
                    ELSE byOnline
    IN OrderBy(tbl, bySince)

\* a query that takes a user for stale as soon as the timeout has elapsed
StaleOnlineAtTimeout(tbl, t) ==
    {i \in 1..Len(tbl) : tbl[i].last_seen_at <= t - OfflineTimeout /\ tbl[i].online}

\* the query of User.find_offline_users
StaleOnline(tbl, t) ==
    {i \in 1..Len(tbl) : tbl[i].last_seen_at < t - OfflineTimeout /\ tbl[i].online}

\* a commit that writes the batch row by row and stops after the first row
MarkFirstOffline(tbl, batch, t) ==
    [i \in 1..Len(tbl) |->
        IF i \in batch /\ \A j \in batch : i <= j
        THEN [tbl[i] EXCEPT !.online = FALSE, !.updated_at = t]
        ELSE tbl[i]]

\* the UPDATE that the commit of User.find_offline_users issues for its batch
MarkOffline(tbl, batch, t) ==
    [i \in 1..Len(tbl) |->
        IF i \in batch THEN [tbl[i] EXCEPT !.online = FALSE, !.updated_at = t]
        ELSE tbl[i]]

(***************************************************************************)
(* The row of an INSERT: the column defaults call timestamp() one after    *)
(* the other, in column order, while the clock runs.                       *)
(***************************************************************************)
NewRow(data, created, updated, seen) ==
    [nickname      |-> CHOOSE n \in data.nickname : TRUE,
     password_hash |-> generate_password_hash(CHOOSE p \in data.password : TRUE, 0),
     created_at    |-> created,
     updated_at    |-> updated,
     last_seen_at  |-> seen,
     online        |-> FALSE]

(***************************************************************************)
(* Initial states: the service at time 0 with an empty table               *)
(* (db.create_all), or after the first accounts have registered, one       *)
(* after the other, within that second.  Outside the test harness the      *)
(* first of these requests has started the background thread, which has    *)
(* found nothing and sleeps.  No request is in progress.                   *)
(***************************************************************************)
Accounts == <<[nickname |-> {"foo"}, password |-> {"p1"}],
              [nickname |-> {"bar"}, password |-> {"p2"}]>>

Registered(n) == [i \in 1..n |-> NewRow(Accounts[i], 0, 0, 0)]

InitWith(isTesting) ==
    /\ testing = isTesting
    /\ \E n \in 0..Len(Accounts) :
          /\ n <= MaxUsers
          /\ users = Registered(n)
          /\ sweepPc = IF n = 0 \/ testing THEN "notstarted" ELSE "sleep"
          /\ wakeAt = IF n = 0 \/ testing THEN 0 ELSE SweepSleep
    /\ now = 0
    /\ pc = [w \in Workers |-> "idle"]
    /\ req = [w \in Workers |-> NoReq]
    /\ g = [w \in Workers |-> FreshG]
    /\ txn = [w \in Workers |-> NoTxn]
    /\ resp = NoResp
    /\ sweepBatch = {}

\* the service as deployed
Init == InitWith(FALSE)

\* the service under the harness of tests.py
InitTest == InitWith(TRUE)

(***************************************************************************)
(* Requests.                                                               *)
(***************************************************************************)
DataSets == {[nickname |-> n, password |-> p] :
                n \in {{}} \cup {{x} : x \in Nicknames},
                p \in {{}} \cup {{x} : x \in Passwords}}

\* updated_since: absent, a fixed early time, or the present time
SinceValues == {{}, {1}, {now}}

ListArgs == {[online |-> o, updated_since |-> s] :
                o \in {"", "0", "1"}, s \in SinceValues}

NewUserRequests == {[NoReq EXCEPT !.ep = "new_user", !.data = d] : d \in DataSets}

GetUsersRequests ==
    {[NoReq EXCEPT !.ep = "get_users", !.token = t, !.args = a] :
        t \in Tokens, a \in ListArgs}

GetUserRequests ==
    {[NoReq EXCEPT !.ep = "get_user", !.token = t, !.id = i] :
        t \in Tokens, i \in 1..MaxUsers}

EditUserRequests ==
    {[NoReq EXCEPT !.ep = "edit_user", !.token = t, !.id = i, !.data = d] :
        t \in Tokens, i \in 1..MaxUsers, d \in DataSets}

GetMeUserRequests ==
    {[NoReq EXCEPT !.ep = "get_me_user", !.data = d] : d \in DataSets}

\* before_first_request: the first request starts the background thread
before_first_request ==
    IF sweepPc = "notstarted" /\ ~testing THEN "sleep" ELSE sweepPc

\* The app context a worker runs in: every request pushes one of its own,
\* except under the test harness (tests.py), which keeps one app context
\* pushed for all the requests of a test.
Ctx(w) == IF testing THEN 1 ELSE w

\* request r as worker w handles it
Stamp(w, r) == [r EXCEPT !.pinged = req[w].pinged]

\* The response to request r ends the request: its app context is popped, and
\* with it flask.g, unless the test harness holds the app context.
Respond(w, r, status, body, gw) ==
    /\ resp' = [req |-> Stamp(w, r), status |-> status, body |-> body]
    /\ pc' = [pc EXCEPT ![w] = "done"]
    /\ req' = [req EXCEPT ![w] = NoReq]
    /\ txn' = [txn EXCEPT ![w] = NoTxn]
    /\ g' = [g EXCEPT ![Ctx(w)] = IF testing THEN gw ELSE FreshG]

\* The next request arrives (the test client sends one request at a time),
\* and before_request runs, up to its commit.
before_request(w) ==
    /\ pc[w] = "idle"
    /\ \A v \in Workers : v < w => pc[v] # "idle"
    /\ testing => \A v \in Workers : pc[v] \in {"idle", "done"}
    /\ sweepPc' = before_first_request
    /\ IF g[Ctx(w)].has_claims /\ g[Ctx(w)].claims # {}
       THEN LET uid == CHOOSE u \in g[Ctx(w)].claims : TRUE
            IN IF uid \notin Ids
               THEN Respond(w, NoReq, 500, <<>>, g[Ctx(w)])
               ELSE /\ txn' = [txn EXCEPT ![w] =
                                  [id |-> uid, ch |-> ping(users[uid], now)]]
                    /\ pc' = [pc EXCEPT ![w] = "ping_commit"]
                    /\ resp' = NoResp
                    /\ UNCHANGED <<req, g>>
       ELSE /\ pc' = [pc EXCEPT ![w] = "view"]
            /\ resp' = NoResp
            /\ UNCHANGED <<req, txn, g>>
    /\ UNCHANGED <<users, now, testing, sweepBatch, wakeAt>>

\* db.session.commit() of before_request
ping_commit(w) ==
    /\ pc[w] = "ping_commit"
    /\ users' = [users EXCEPT ![txn[w].id] = ApplyUpdate(@, txn[w].ch, now)]
    /\ pc' = [pc EXCEPT ![w] = "view"]
    /\ req' = [req EXCEPT ![w].pinged = txn[w].id]
    /\ txn' = [txn EXCEPT ![w] = NoTxn]
    /\ resp' = NoResp
    /\ UNCHANGED <<now, testing, g, sweepPc, sweepBatch, wakeAt>>

(***************************************************************************)
(* POST /api/users                                                         *)
(***************************************************************************)
\* a from_dict that lets a missing field pass
from_dict_never_aborts(data, partial_update) == FALSE

\* User.from_dict: the first missing field aborts a non-partial import
from_dict_aborts(data, partial_update) ==
    ~partial_update /\ (data.nickname = {} \/ data.password = {})

Registering == {w \in Workers : pc[w] = "insert"}

\* a new_user that does not look for the nickname before it inserts
nickname_unchecked(tbl, data) == FALSE

\* the query by nickname of new_user finds a user
nickname_taken(tbl, data) ==
    \E n \in data.nickname : RowsByNickname(tbl, n) # {}

\* new_user up to db.session.add: User.create, then the query by nickname
new_user(w) ==
    /\ pc[w] = "view"
    /\ \E r \in NewUserRequests :
          IF from_dict_aborts(r.data, FALSE)
          THEN Respond(w, r, 400, <<>>, g[Ctx(w)])
          ELSE IF nickname_taken(users, r.data)
          THEN Respond(w, r, 400, <<>>, g[Ctx(w)])
          ELSE /\ Len(users) + Cardinality(Registering) < MaxUsers
               /\ pc' = [pc EXCEPT ![w] = "insert"]
               /\ req' = [req EXCEPT ![w] = Stamp(w, r)]
               /\ resp' = NoResp
               /\ UNCHANGED <<txn, g>>
    /\ UNCHANGED <<users, now, testing, sweepPc, sweepBatch, wakeAt>>

\* db.session.commit() of new_user, and the response
new_user_commit(w) ==
    /\ pc[w] = "insert"
    /\ IF InsertViolatesUnique(users, req[w].data)
       THEN \* IntegrityError of the unique constraint
            /\ Respond(w, req[w], 500, <<>>, g[Ctx(w)])
            /\ UNCHANGED <<users, now>>
       ELSE \E d \in ClockDrift :
            /\ now + d[1] + d[2] <= MaxTime
            /\ users' = Append(users,
                          NewRow(req[w].data, now, now + d[1], now + d[1] + d[2]))
            /\ now' = now + d[1] + d[2]
            /\ Respond(w, req[w], 201, <<Len(users) + 1>>, g[Ctx(w)])
    /\ UNCHANGED <<testing, sweepPc, sweepBatch, wakeAt>>

(***************************************************************************)
(* GET /api/users and GET /api/users/<id>                                  *)
(***************************************************************************)
get_users(w) ==
    /\ pc[w] = "view"
    /\ \E r \in GetUsersRequests :
          LET a == verify_optional_token(r.token)
          IN IF ~a.ok
             THEN Respond(w, r, 401, <<>>, a.g)
             ELSE Respond(w, r, 200, ListUsers(users, r.args), a.g)
    /\ UNCHANGED <<users, now, testing, sweepPc, sweepBatch, wakeAt>>

get_user(w) ==
    /\ pc[w] = "view"
    /\ \E r \in GetUserRequests :
          LET a == verify_optional_token(r.token)
          IN IF ~a.ok
             THEN Respond(w, r, 401, <<>>, a.g)
             ELSE IF r.id \notin Ids
             THEN Respond(w, r, 404, <<>>, a.g)
             ELSE Respond(w, r, 200, <<r.id>>, a.g)
    /\ UNCHANGED <<users, now, testing, sweepPc, sweepBatch, wakeAt>>

(***************************************************************************)
(* PUT /api/users/<id>                                                     *)
(***************************************************************************)
\* a from_dict that also marks the user as online
from_dict_online(row, data) ==
    Diff(row, data.nickname,
         {generate_password_hash(p, NextSalt(row.password_hash)) : p \in data.password},
         {}, {TRUE})

\* User.from_dict on a loaded row (partial update)
from_dict(row, data) ==
    Diff(row, data.nickname,
         {generate_password_hash(p, NextSalt(row.password_hash)) : p \in data.password},
         {}, {})

\* an edit_user without the check of the token's identity
may_edit_any(id, claims) == TRUE

\* users are only allowed to modify themselves
may_edit(id, claims) == id \in claims

\* edit_user up to db.session.add
edit_user(w) ==
    /\ pc[w] = "view"
    /\ \E r \in EditUserRequests :
          LET a == verify_token(r.token)
          IN IF ~a.ok
             THEN Respond(w, r, 401, <<>>, a.g)
             ELSE IF r.id \notin Ids
             THEN Respond(w, r, 404, <<>>, a.g)
             ELSE IF ~may_edit(r.id, a.g.claims)
             THEN Respond(w, r, 403, <<>>, a.g)
             ELSE /\ txn' = [txn EXCEPT ![w] =
                        [id |-> r.id, ch |-> from_dict(users[r.id], r.data)]]
                  /\ pc' = [pc EXCEPT ![w] = "edit_commit"]
                  /\ req' = [req EXCEPT ![w] = Stamp(w, r)]
                  /\ g' = [g EXCEPT ![Ctx(w)] = a.g]
                  /\ resp' = NoResp
    /\ UNCHANGED <<users, now, testing, sweepPc, sweepBatch, wakeAt>>

\* db.session.commit() of edit_user, and the response
edit_user_commit(w) ==
    /\ pc[w] = "edit_commit"
    /\ IF UpdateViolatesUnique(users, txn[w].id, txn[w].ch)
       THEN \* IntegrityError of the unique constraint
            /\ Respond(w, req[w], 500, <<>>, g[Ctx(w)])
            /\ UNCHANGED users
       ELSE /\ users' = [users EXCEPT ![txn[w].id] = ApplyUpdate(@, txn[w].ch, now)]
            /\ Respond(w, req[w], 204, <<>>, g[Ctx(w)])
    /\ UNCHANGED <<now, testing, sweepPc, sweepBatch, wakeAt>>

(***************************************************************************)
(* GET /api/users/me                                                       *)
(***************************************************************************)
\* the user the password verification callback accepts, if any
Authenticated(tbl, auth) ==
    {i \in 1..Len(tbl) :
        /\ tbl[i].nickname \in auth.nickname
        /\ \E p \in auth.password : verify_password(tbl[i], p)}

\* the verify_password callback up to user.ping()
get_me_user(w) ==
    /\ pc[w] = "view"
    /\ \E r \in GetMeUserRequests :
          IF Authenticated(users, r.data) = {}
          THEN Respond(w, r, 401, <<>>, g[Ctx(w)])
          ELSE LET uid == CHOOSE i \in Authenticated(users, r.data) : TRUE
               IN /\ txn' = [txn EXCEPT ![w] =
                                [id |-> uid, ch |-> ping(users[uid], now)]]
                  /\ pc' = [pc EXCEPT ![w] = "me_commit"]
                  /\ req' = [req EXCEPT ![w] = Stamp(w, r)]
                  /\ resp' = NoResp
                  /\ UNCHANGED g
    /\ UNCHANGED <<users, now, testing, sweepPc, sweepBatch, wakeAt>>

\* db.session.commit() of the callback, then the view returns g.current_user
get_me_user_commit(w) ==
    /\ pc[w] = "me_commit"
    /\ users' = [users EXCEPT ![txn[w].id] = ApplyUpdate(@, txn[w].ch, now)]
    /\ Respond(w, req[w], 200, <<txn[w].id>>, g[Ctx(w)])
    /\ UNCHANGED <<now, testing, sweepPc, sweepBatch, wakeAt>>

(***************************************************************************)
(* The background thread of before_first_request.                          *)
(***************************************************************************)
\* time.sleep(5) has returned (the thread starts awake); the query of
\* User.find_offline_users
sweep_query ==
    /\ sweepPc = "sleep"
    /\ now >= wakeAt
    /\ sweepBatch' = StaleOnline(users, now)
    /\ IF StaleOnline(users, now) = {}
       THEN \* nothing to flush: the commit changes nothing, the thread sleeps
            sweepPc' = "sleep" /\ wakeAt' = now + SweepSleep
       ELSE sweepPc' = "commit" /\ wakeAt' = 0
    /\ resp' = NoResp
    /\ UNCHANGED <<users, now, testing, pc, req, g, txn>>

\* db.session.commit() of User.find_offline_users, then time.sleep(5) begins
sweep_commit ==
    /\ sweepPc = "commit"
    /\ users' = MarkOffline(users, sweepBatch, now)
    /\ sweepPc' = "sleep"
    /\ wakeAt' = now + SweepSleep
    /\ resp' = NoResp
    /\ UNCHANGED <<now, testing, pc, req, g, txn, sweepBatch>>

\* The store raises in the query or in the commit: nothing in the loop catches
\* the exception, so it ends the thread; the session's transaction is not
\* committed.
sweep_raise ==
    /\ \/ sweepPc = "sleep" /\ now >= wakeAt
       \/ sweepPc = "commit"
    /\ sweepPc' = "dead"
    /\ sweepBatch' = {}
    /\ wakeAt' = 0
    /\ resp' = NoResp
    /\ UNCHANGED <<users, now, testing, pc, req, g, txn>>

\* User.find_offline_users() called directly, as tests.py does
find_offline_users ==
    /\ testing
    /\ \A w \in Workers : pc[w] \in {"idle", "done"}
    /\ StaleOnline(users, now) # {}
    /\ users' = MarkOffline(users, StaleOnline(users, now), now)
    /\ resp' = NoResp
    /\ UNCHANGED <<now, testing, pc, req, g, txn, sweepPc, sweepBatch,
                   wakeAt>>

\* the clock advances
Tick ==
    /\ \E d \in TickSteps :
          /\ now + d <= MaxTime
          /\ now' = now + d
    /\ resp' = NoResp
    /\ UNCHANGED <<users, testing, pc, req, g, txn, sweepPc, sweepBatch,
                   wakeAt>>

\* The clock advances while the background thread keeps its schedule: a
\* thread that is awake takes no time, a sleeping thread wakes on time, and a
\* request takes no time.
TickOnSchedule ==
    /\ \A w \in Workers : pc[w] \in {"idle", "done"}
    /\ \/ /\ sweepPc = "sleep"
          /\ now < wakeAt
          /\ wakeAt <= MaxTimeOnSchedule
          /\ now' = wakeAt
       \/ /\ sweepPc \in {"notstarted", "dead"}
          /\ \E d \in TickSteps \cup {SweepSleep} :
                /\ now + d <= MaxTimeOnSchedule
                /\ now' = now + d
    /\ resp' = NoResp
    /\ UNCHANGED <<users, testing, pc, req, g, txn, sweepPc, sweepBatch, wakeAt>>

(***************************************************************************)
(* The service as deployed: requests in app contexts of their own, and     *)
(* the background thread.                                                  *)
(***************************************************************************)
Next ==
    \/ \E w \in Workers :
          \/ before_request(w)
          \/ new_user(w)
          \/ new_user_commit(w)
          \/ get_users(w)
          \/ get_user(w)
          \/ edit_user(w)
          \/ edit_user_commit(w)
          \/ get_me_user(w)
          \/ get_me_user_commit(w)
    \/ sweep_query
    \/ sweep_commit
    \/ sweep_raise
    \/ Tick

Spec == Init /\ [][Next]_vars

(***************************************************************************)
(* The service under the harness of tests.py: TESTING is set, so no        *)
(* background thread; one app context for all requests; the test calls     *)
(* User.find_offline_users() itself.                                       *)
(***************************************************************************)
NextTest ==
    \/ \E w \in Workers :
          \/ before_request(w)
          \/ ping_commit(w)
          \/ new_user(w)
          \/ new_user_commit(w)
          \/ get_users(w)
          \/ get_user(w)
          \/ edit_user(w)
          \/ edit_user_commit(w)
          \/ get_me_user(w)
          \/ get_me_user_commit(w)
    \/ find_offline_users
    \/ Tick

SpecTest == InitTest /\ [][NextTest]_vars

(***************************************************************************)
(* The presence of the registered users when the background thread keeps   *)
(* its schedule.                                                           *)
(***************************************************************************)
NextOnSchedule ==
    \/ \E w \in Workers :
          \/ before_request(w)
          \/ get_me_user(w)
          \/ get_me_user_commit(w)
    \/ sweep_query
    \/ sweep_commit
    \/ sweep_raise
    \/ TickOnSchedule

SpecOnSchedule == Init /\ [][NextOnSchedule]_vars

(***************************************************************************)
(* Properties of the service.                                              *)
(***************************************************************************)
\* worker w sends the response of its request in this step
Completed(w) == pc[w] # "done" /\ pc'[w] = "done"

\* no two stored users have the same nickname
NicknamesUnique ==
    \A i, j \in Ids : i # j => users[i].nickname # users[j].nickname

\* carrying out request r on table tbl would give two users one nickname
WouldCollide(tbl, r) ==
    /\ r.ep \in {"new_user", "edit_user"}
    /\ \E i \in 1..Len(tbl) :
          /\ tbl[i].nickname \in r.data.nickname
          /\ r.ep = "edit_user" => i # r.id

\* C1: no two stored users ever have the same nickname, whatever the
\* interleaving of registrations and edits; a registration or an edit that
\* would give two users the same nickname is answered with a failure and
\* leaves the store as it was.
C1_NicknamesStayUnique ==
    /\ NicknamesUnique
    /\ [][/\ NicknamesUnique'
          /\ \A w \in Workers :
                Completed(w) /\ WouldCollide(users, resp'.req)
                    => resp'.status \notin {200, 201, 204} /\ users' = users]_vars

\* two registrations of one nickname raced, and the unique constraint refused
\* the second at its commit; or an edit to another user's nickname was refused
C1_Witness ==
    /\ resp.status = 500
    /\ resp.req.ep \in {"new_user", "edit_user"}
    /\ \E i \in Ids : users[i].nickname \in resp.req.data.nickname

\* C2: a PUT /api/users/<B> with a valid token of an identity A other than B
\* is answered 403 whatever its body, and nothing of the stored user B
\* (nickname, password hash, online, last_seen_at) is modified by the request.
C2_ForeignEditForbidden ==
    [][\A w \in Workers :
          /\ Completed(w)
          /\ resp'.req.ep = "edit_user"
          /\ resp'.req.token.valid
          /\ resp'.req.id \in Ids
          /\ resp'.req.token.user_id # resp'.req.id
          => /\ resp'.status = 403
             /\ resp'.req.pinged # resp'.req.id
             /\ users' = users]_vars

\* an edit of user B with A's token and both fields in its body was refused
C2_Witness ==
    /\ resp.req.ep = "edit_user"
    /\ resp.status = 403
    /\ resp.req.token.valid
    /\ resp.req.id \in Ids
    /\ resp.req.data.nickname # {}
    /\ resp.req.data.password # {}

\* the response just sent answers a request that a valid token of the stored
\* user uid authenticated
TokenAuthenticated(uid) ==
    /\ resp.req.ep \in {"get_users", "get_user", "edit_user"}
    /\ resp.req.token.valid
    /\ resp.req.token.user_id = uid
    /\ uid \in Ids
    /\ resp.status \in {200, 204}

\* the ids a listing with the given online filter returns
Listed(online) == {ListUsers(users, [NoArgs EXCEPT !.online = online])[k] :
                      k \in 1..Len(ListUsers(users, [NoArgs EXCEPT !.online = online]))}

\* C3: once a request that a token of the stored user U authenticated has
\* been handled, U is online and its last_seen_at is the time of the request;
\* the listing with online=1 includes U and the listing with online=0 does not.
C3_TokenRequestTouches ==
    \A uid \in 1..MaxUsers :
        TokenAuthenticated(uid)
            => /\ users[uid].online
               /\ users[uid].last_seen_at = now
               /\ uid \in Listed("1")
               /\ uid \notin Listed("0")

\* worker w commits a touch (User.ping) in this step
TouchCommits(w) ==
    /\ pc[w] \in {"me_commit", "ping_commit"}
    /\ pc'[w] # pc[w]

\* C4: a touch of user U whose write is applied after the write of a sweep
\* that read U as stale is not lost: once the touch has committed, U is
\* online and has the touch's last_seen_at.
C4_TouchNotLost ==
    [][\A w \in Workers :
          TouchCommits(w)
              => /\ users'[txn[w].id].online
                 /\ \A t \in txn[w].ch.last_seen_at :
                       users'[txn[w].id].last_seen_at = t]_vars

\* the background thread runs the query of an iteration in this step
SweepQueries ==
    /\ sweepPc = "sleep"
    /\ sweepPc' = "commit" \/ (sweepPc' = "sleep" /\ wakeAt' # wakeAt)

\* the background thread commits an iteration in this step
SweepCommits == sweepPc = "commit" /\ sweepPc' = "sleep"

\* C5: a sweep run at time now sets online to false for exactly the users it
\* finds with online true and last_seen_at < now - 60, leaves online as it is
\* for the users seen within the last 60 seconds and for the users already
\* offline, and never changes a last_seen_at.
C5_SweepDemotesStale ==
    [][/\ SweepQueries
          => /\ sweepBatch' = {i \in Ids : /\ users[i].online
                                           /\ users[i].last_seen_at < now - 60}
             /\ sweepBatch' = {} => sweepPc' = "sleep"
             /\ users' = users
       /\ SweepCommits
          => /\ Len(users') = Len(users)
             /\ \A i \in Ids :
                   /\ users'[i].last_seen_at = users[i].last_seen_at
                   /\ users'[i].nickname = users[i].nickname
                   /\ users'[i].password_hash = users[i].password_hash
                   /\ i \in sweepBatch => ~users'[i].online
                   /\ i \notin sweepBatch => users'[i] = users[i]]_vars

\* a sweep has demoted a user and has left another one online
C5_Witness ==
    /\ sweepPc = "sleep"
    /\ sweepBatch # {}
    /\ \A i \in sweepBatch : ~users[i].online /\ users[i].last_seen_at < now - 60
    /\ \E j \in Ids \ sweepBatch : users[j].online

\* C6: while the service runs, no user is online with a last_seen_at that is
\* older than the 60 seconds of the timeout by more than the 5 seconds of a
\* sweep period: the next sweep after the timeout demotes an online user that
\* is not touched again.
C6_BoundedStaleness ==
    \A i \in Ids : users[i].online => now - users[i].last_seen_at <= 60 + 5

\* C7: a failure of an iteration of the background thread's loop is caught
\* within the iteration and does not end the loop: the thread started by the
\* first request is sleeping or sweeping ever after.
C7_SweepLoopSurvives ==
    sweepPc \in {"notstarted", "sleep", "commit"}

\* the request worker w takes up in this step
Submitted(w) == IF pc'[w] = "done" THEN resp'.req ELSE req'[w]

\* C8: a registration submitted with a nickname that a stored user has,
\* whatever its password, is answered 400 and stores nothing: the store still
\* has exactly one user of that nickname.
C8_DuplicateRegistrationRefused ==
    [][\A w \in Workers :
          /\ pc[w] = "view"
          /\ pc'[w] # "view"
          /\ Submitted(w).ep = "new_user"
          /\ \E i \in Ids : users[i].nickname \in Submitted(w).data.nickname
          => /\ pc'[w] = "done"
             /\ resp'.status = 400
             /\ users' = users
             /\ \A n \in Submitted(w).data.nickname :
                   Cardinality(RowsByNickname(users', n)) = 1]_vars

\* a registration with a stored nickname and a password other than the
\* stored user's was refused
C8_Witness ==
    /\ resp.req.ep = "new_user"
    /\ resp.status = 400
    /\ \E i \in Ids :
          /\ users[i].nickname \in resp.req.data.nickname
          /\ resp.req.data.password # {}
          /\ \A p \in resp.req.data.password : ~verify_password(users[i], p)

\* C9: GET /api/users and GET /api/users/<id> serve a request with no token
\* or with an invalid token as an anonymous one, with no authentication
\* error; they serve a request with a valid token and update the presence of
\* the token's user.
C9_OptionalTokenReads ==
    resp.req.ep \in {"get_users", "get_user"}
        => /\ resp.status # 401
           /\ \A uid \in Ids :
                 resp.req.token.valid /\ resp.req.token.user_id = uid
                     => users[uid].online /\ users[uid].last_seen_at = now

\* the stored users whose nickname and password the credentials present
Verifies(data) ==
    {i \in Ids : /\ users[i].nickname \in data.nickname
                 /\ \E p \in data.password : users[i].password_hash.pw = p}

\* C10: GET /api/users/me answers 200 with the caller's own record and touches
\* exactly the caller if and only if the nickname exists and the password
\* verifies against its stored hash; otherwise it answers 401, sets no caller,
\* and changes no user's online flag or last_seen_at.
C10_SelfLookup ==
    [][\A w \in Workers :
          /\ pc[w] = "view" /\ pc'[w] # "view"
             /\ Submitted(w).ep = "get_me_user"
             => IF Verifies(Submitted(w).data) = {}
                THEN /\ pc'[w] = "done"
                     /\ resp'.status = 401
                     /\ resp'.body = <<>>
                     /\ users' = users
                ELSE /\ pc'[w] = "me_commit"
                     /\ txn'[w].id \in Verifies(Submitted(w).data)
                     /\ users' = users
          /\ pc[w] = "me_commit" /\ pc'[w] # "me_commit"
             => /\ resp'.status = 200
                /\ resp'.body = <<txn[w].id>>
                /\ users'[txn[w].id].online
                /\ \A t \in txn[w].ch.last_seen_at :
                      users'[txn[w].id].last_seen_at = t
                /\ \A j \in Ids : j # txn[w].id => users'[j] = users[j]]_vars

\* C11: GET /api/users?updated_since=v returns exactly the users with
\* updated_at >= v (among those its online filter admits), and every
\* listing is in ascending order of updated_at and, for equal updated_at, of
\* nickname.
C11_UpdatedSinceAndOrder ==
    resp.req.ep = "get_users" /\ resp.status = 200
        => LET b == resp.body
               a == resp.req.args
           IN /\ \A k, l \in 1..Len(b) : k < l => b[k] # b[l]
              /\ {b[k] : k \in 1..Len(b)} =
                    {i \in Ids :
                        /\ a.online = "1" => users[i].online
                        /\ a.online = "0" => ~users[i].online
                        /\ \A v \in a.updated_since : ~(users[i].updated_at < v)}
              /\ \A k, l \in 1..Len(b) :
                    k < l =>
                        \/ users[b[k]].updated_at < users[b[l]].updated_at
                        \/ /\ users[b[k]].updated_at = users[b[l]].updated_at
                           /\ users[b[k]].nickname = "bar"
                           /\ users[b[l]].nickname = "foo"

\* a listing with updated_since left out a user updated earlier and returned
\* a user updated at that very time
C11_Witness ==
    /\ resp.req.ep = "get_users"
    /\ resp.status = 200
    /\ \E v \in resp.req.args.updated_since :
          /\ \E i \in Ids : users[i].updated_at < v
          /\ \E k \in 1..Len(resp.body) : users[resp.body[k]].updated_at = v

\* C12: a registration with both fields and a nickname that no stored user
\* has is answered 201, and the user it stores is offline with a
\* last_seen_at equal to its created_at, whatever the clock does meanwhile.
C12_CreatedOfflineSeenAtCreation ==
    [][\A w \in Workers :
          /\ Completed(w)
          /\ resp'.req.ep = "new_user"
          /\ resp'.req.data.nickname # {}
          /\ resp'.req.data.password # {}
          /\ \A i \in Ids : users[i].nickname \notin resp'.req.data.nickname
          => /\ resp'.status = 201
             /\ Len(users') = Len(users) + 1
             /\ ~users'[Len(users')].online
             /\ users'[Len(users')].last_seen_at = users'[Len(users')].created_at]_vars

\* C13: a registration whose body lacks the nickname or the password is
\* answered 400 and writes nothing, so the nickname it carried stays free;
\* and an edit that is refused applies none of its fields.
C13_RejectedRequestWritesNothing ==
    [][\A w \in Workers :
          /\ /\ pc[w] = "view" /\ pc'[w] # "view"
             /\ Submitted(w).ep = "new_user"
             /\ Submitted(w).data.nickname = {} \/ Submitted(w).data.password = {}
             => /\ pc'[w] = "done"
                /\ resp'.status = 400
                /\ users' = users
          /\ /\ Completed(w)
             /\ resp'.req.ep = "edit_user"
             /\ resp'.status # 204
             => users' = users]_vars

\* a registration that carried a free nickname and no password was refused
C13_Witness ==
    /\ resp.req.ep = "new_user"
    /\ resp.status = 400
    /\ resp.req.data.password = {}
    /\ \E n \in resp.req.data.nickname : RowsByNickname(users, n) = {}

\* C14 as stated: a sweep run at time now demotes an online user exactly
\* when now - last_seen_at >= 60, the user inactive for exactly 60 seconds
\* included.
C14_DemotesAtTimeout ==
    [][SweepQueries
          => \A i \in Ids :
                i \in sweepBatch' <=> /\ users[i].online
                                      /\ now - users[i].last_seen_at >= 60]_vars

\* C14, amended: a sweep run at time now demotes an online user exactly when
\* now - last_seen_at > 60; a user that has been inactive for exactly 60
\* seconds, or for less, stays online.
C14_DemotesPastTimeout ==
    [][/\ SweepQueries
          => \A i \in Ids :
                /\ i \in sweepBatch' <=> /\ users[i].online
                                         /\ now - users[i].last_seen_at > 60
                /\ users[i].online /\ now - users[i].last_seen_at = 60
                      => i \notin sweepBatch'
       /\ SweepCommits
          => \A i \in Ids :
                users[i].online /\ ~users'[i].online => i \in sweepBatch]_vars

\* a sweep has just run over a user inactive for exactly 60 seconds, and the
\* user is online
C14_Witness ==
    /\ sweepPc = "sleep"
    /\ wakeAt = now + SweepSleep
    /\ \A w \in Workers : pc[w] \in {"idle", "done"}
    /\ \E i \in Ids : users[i].online /\ now - users[i].last_seen_at = 60

\* the users that go from online to offline in this step
Demoted == {i \in Ids : users[i].online /\ ~users'[i].online}

\* C15: the demotions of one sweep are committed as one unit: a step that
\* demotes a user is the commit of a sweep and leaves every user of its
\* batch offline, and a sweep that fails before or in its commit demotes
\* nobody; no state shows a part of the batch demoted.
C15_SweepCommitsAtomically ==
    [][/\ Demoted # {}
          => /\ SweepCommits
             /\ Demoted \subseteq sweepBatch
             /\ \A i \in sweepBatch : ~users'[i].online
       /\ sweepPc = "commit" /\ sweepPc' = "dead" => users' = users]_vars

\* a sweep has committed a batch of two users, and both are offline
C15_Witness ==
    /\ sweepPc = "sleep"
    /\ Cardinality(sweepBatch) >= 2
    /\ wakeAt = now + SweepSleep
    /\ \A i \in sweepBatch : ~users[i].online /\ users[i].updated_at = now

\* C16: every user has updated_at >= created_at; an operation that changes
\* a user's nickname, password hash or online flag (self-edit, promotion by
\* a touch, demotion by a sweep) sets that user's updated_at to the time of
\* the operation; created_at and the id of a stored user never change.
C16_UpdatedAtAdvances ==
    /\ \A i \in Ids : users[i].updated_at >= users[i].created_at
    /\ [][/\ Len(users') >= Len(users)
          /\ \A i \in Ids :
                /\ users'[i].created_at = users[i].created_at
                /\ \/ users'[i].nickname # users[i].nickname
                   \/ users'[i].password_hash # users[i].password_hash
                   \/ users'[i].online # users[i].online
                   => /\ users'[i].updated_at = now'
                      /\ users'[i].updated_at >= users[i].updated_at]_vars

\* a user created a minute ago or earlier has been promoted, demoted or
\* edited just now
C16_Witness ==
    \E i \in Ids :
        /\ users[i].updated_at = now
        /\ users[i].created_at + 60 <= now

\* C17: an edit by a user of its own record that sets the nickname to the
\* nickname of another user is answered 400 and writes nothing: the caller's
\* nickname and password hash stay as they were.
C17_EditConflictRefused ==
    [][\A w \in Workers :
          /\ Completed(w)
          /\ resp'.req.ep = "edit_user"
          /\ resp'.req.token.valid
          /\ resp'.req.id \in Ids
          /\ resp'.req.token.user_id = resp'.req.id
          /\ \E j \in Ids : /\ j # resp'.req.id
                            /\ users[j].nickname \in resp'.req.data.nickname
          => /\ resp'.status = 400
             /\ users' = users]_vars

\* C18: a request authenticated by a valid token whose user id is the id of
\* no stored user is answered 500 on every endpoint that takes a token.
C18_UnknownTokenUserIs500 ==
    /\ resp.req.ep \in {"get_users", "get_user", "edit_user"}
    /\ resp.req.token.valid
    /\ resp.req.token.user_id \notin Ids
    => resp.status = 500

\* the users that go from offline to online in this step
Promoted == {i \in Ids : ~users[i].online /\ users'[i].online}

\* C19: the online flag of a user follows the presence state machine: it is
\* false at creation; it goes from false to true only in the commit of a
\* touch of that user; it goes from true to false only in the commit of a
\* sweep that found the user online and timed out; and no other step
\* (listing, lookup, registration, edit) changes the online flag or the
\* last_seen_at of any stored user.
C19_PresenceStateMachine ==
    [][/\ \A i \in (1..Len(users')) \ Ids : ~users'[i].online
       /\ \A i \in Promoted :
             \E w \in Workers : TouchCommits(w) /\ txn[w].id = i
       /\ Demoted # {} => SweepCommits /\ Demoted \subseteq sweepBatch
       /\ SweepQueries
             => \A i \in sweepBatch' :
                   users[i].online /\ now - users[i].last_seen_at > 60
       /\ \A i \in Ids :
             users'[i].last_seen_at # users[i].last_seen_at
                 => \E w \in Workers : TouchCommits(w) /\ txn[w].id = i
       /\ \A w \in Workers :
             Completed(w) /\ resp'.req.ep \notin {"get_me_user"}
                 => \A i \in Ids :
                       /\ users'[i].online = users[i].online
                       /\ users'[i].last_seen_at = users[i].last_seen_at]_vars

\* a user created offline has been promoted by its touch and then demoted
\* by a sweep
C19_Witness ==
    /\ sweepPc = "sleep"
    /\ \E i \in sweepBatch :
          /\ ~users[i].online
          /\ users[i].updated_at = now
          /\ now - users[i].last_seen_at > 60

\* C20: a request that presents no credentials (registration, listing or
\* lookup) changes no stored user's online flag or last_seen_at, whatever
\* requests were handled before it: the identity resolved for an earlier
\* request is not carried over, so before_request pings nobody for it.
C20_AnonymousRequestPingsNobody ==
    [][\A w \in Workers :
          /\ Completed(w)
          /\ resp'.req.ep \in {"new_user", "get_users", "get_user"}
          /\ ~resp'.req.token.present
          => /\ resp'.req.pinged = 0
             /\ \A i \in Ids :
                   /\ users'[i].online = users[i].online
                   /\ users'[i].last_seen_at = users[i].last_seen_at]_vars

=============================================================================
